---- MODULE Spec2Model ----
(***************************************************************************)
(* A model of swmfpy: the PARAM.in patch engine (replace_paramin_option),  *)
(* the OMNI fetch adapter (get_omni_data), the OMNI CSV reader             *)
(* (read_omni_csv, coarse_filtering), the solar wind input writer          *)
(* (write_sw_input) and the OMNI converter (convert).                      *)
(*                                                                         *)
(* Text is modelled by TLA+ strings; str.split, file iteration and file    *)
(* writes are computed character by character.  Every operation has its   *)
(* own specification (SpecParam, SpecOmni, SpecCsv, SpecSw, SpecConvert);  *)
(* pc, handles and err are shared by all of them.                          *)
(***************************************************************************)
EXTENDS Integers, Sequences, FiniteSets, TLC

VARIABLES
    pc,          \* position of the running operation
    handles,     \* handle name -> "unopened" | "open" | "closed"
    err,         \* the exception that ended the operation, or "none"
    \* ---- replace_paramin_option
    fs,          \* file system: path -> content (a string)
    param_file,  \* argument: path of the file to read
    replace,     \* argument: command -> sequence of [param, value] items
    lines,       \* local: list(paramin), edited in place
    line_num,    \* local: enumerate index (0-based)
    command,     \* local: <<>> for None, <<name>> for the current command
    pass,        \* 1: first application, 2: application to its own output
    out1,        \* the list the first application returned
    \* ---- get_omni_data
    time_from,   \* argument
    time_to,     \* argument
    cursor,      \* the rrule iterator: the month it will try next
    requests,    \* the resource names requested so far, in order
    omni_data,   \* omni_data['Time [UT]']
    \* ---- read_omni_csv
    csv_file,    \* the file: column -> cells (after the header line)
    data,        \* local: the DataFrame, column -> cells
    clean,       \* kwargs.get('clean', True)
    filtering,   \* argument
    coarseness,  \* kwargs.get('coarseness', 3)
    \* ---- write_sw_input
    sw_data,     \* argument data: the index of each record
    kwargs,      \* keyword arguments: key -> value
    enable_rb,   \* argument
    imf_file,    \* the lines written to outfilename
    rb_file,     \* the lines written to RB.SWIMF
    \* ---- convert
    infile,      \* argument: the lines of the open input file left to read
    outfile,     \* argument: "file" for an open file, "str" for the default
    out_text     \* what was written to outfile

shared == <<pc, handles, err>>
pvars == <<fs, param_file, replace, lines, line_num, command, pass, out1>>
ovars == <<time_from, time_to, cursor, requests, omni_data>>
csvvars == <<csv_file, data, clean, filtering, coarseness>>
swvars == <<sw_data, kwargs, enable_rb, imf_file, rb_file>>
cvvars == <<infile, outfile, out_text>>
vars == <<shared, pvars, ovars, csvvars, swvars, cvvars>>

\* The state of the operations a specification does not run.
ParamIdle ==
    /\ fs = <<>> /\ param_file = "" /\ replace = <<>> /\ lines = <<>>
    /\ line_num = 0 /\ command = <<>> /\ pass = 0 /\ out1 = <<>>
OmniIdle ==
    /\ time_from = <<>> /\ time_to = <<>> /\ cursor = <<>>
    /\ requests = <<>> /\ omni_data = <<>>
CsvIdle ==
    /\ csv_file = <<>> /\ data = <<>> /\ clean = FALSE /\ filtering = FALSE
    /\ coarseness = 0
SwIdle ==
    /\ sw_data = <<>> /\ kwargs = <<>> /\ enable_rb = FALSE
    /\ imf_file = <<>> /\ rb_file = <<>>
ConvertIdle == infile = <<>> /\ outfile = "" /\ out_text = ""

(***************************************************************************)
(* Strings                                                                 *)
(***************************************************************************)

\* Characters str.split() treats as separators.
IsSpace(c) == c \in {" ", "\t", "\n", "\r"}

RECURSIVE SplitRec(_, _, _, _)
SplitRec(s, i, cur, acc) ==
    IF i > Len(s)
    THEN IF cur = "" THEN acc ELSE Append(acc, cur)
    ELSE LET c == SubSeq(s, i, i) IN
         IF IsSpace(c)
         THEN SplitRec(s, i + 1, "", IF cur = "" THEN acc ELSE Append(acc, cur))
         ELSE SplitRec(s, i + 1, cur \o c, acc)

\* line.split(): the whitespace-delimited tokens of a line.
Split(s) == SplitRec(s, 1, "", <<>>)

RECURSIVE SplitLinesRec(_, _, _, _)
SplitLinesRec(s, i, cur, acc) ==
    IF i > Len(s)
    THEN IF cur = "" THEN acc ELSE Append(acc, cur)
    ELSE LET c == SubSeq(s, i, i) IN
         IF c = "\n"
         THEN SplitLinesRec(s, i + 1, "", Append(acc, cur \o c))
         ELSE SplitLinesRec(s, i + 1, cur \o c, acc)

\* list(paramin): the lines of a text file, line endings kept.
ReadLines(content) == SplitLinesRec(content, 1, "", <<>>)

DigitChars == "0123456789"

RECURSIVE NatStr(_)
\* str(n) of a natural number
NatStr(n) ==
    IF n < 10 THEN SubSeq(DigitChars, n + 1, n + 1)
    ELSE NatStr(n \div 10) \o SubSeq(DigitChars, (n % 10) + 1, (n % 10) + 1)

\* str(n).zfill(2), the width of %m, %d, %H and %M
ZFill2(n) == IF n < 10 THEN "0" \o NatStr(n) ELSE NatStr(n)

\* the width of %j
ZFill3(n) == IF n < 10 THEN "00" \o NatStr(n)
             ELSE IF n < 100 THEN "0" \o NatStr(n) ELSE NatStr(n)

RECURSIVE WriteLines(_)
\* for line in lines: outfile.write(line)
WriteLines(ls) == IF ls = <<>> THEN "" ELSE Head(ls) \o WriteLines(Tail(ls))

(***************************************************************************)
(* replace_paramin_option                                                  *)
(***************************************************************************)

MaxLines == 4

TemplatePath == "PARAM.in.template"
OutputPath == "PARAM.in"

\* Lines a PARAM.in file is made of: two command lines (one with a trailing
\* word), a parameter line, a blank line and a one-token line.
LineSet == {"#DOAMR\n", "#SAVE log\n", "100 DnAmr\n", "\n", "T\n"}

RECURSIVE Documents(_)
Documents(n) ==
    IF n = 0 THEN {""}
    ELSE Documents(n - 1) \cup
         {d \o l : d \in {x \in Documents(n - 1) : Len(ReadLines(x)) = n - 1},
                   l \in LineSet}

StrV(s) == [t |-> "str", v |-> s]
IntV(n) == [t |-> "int", v |-> n]
Item(p, v) == [param |-> p, value |-> v]

\* Replacement specs: dictionaries, so parameter names are unique per command.
ReplaceSet ==
    { [c \in {"#DOAMR"} |-> <<Item("DnAmr", StrV("200"))>>],
      [c \in {"#DOAMR"} |-> <<Item("DnAmr", IntV(200))>>],
      [c \in {"#DOAMR"} |-> <<Item("DnAmr", StrV("5 log")),
                              Item("log", StrV("F"))>>],
      [c \in {"#DOAMR"} |-> <<Item("DnAmr", StrV(""))>>],
      [c \in {"#DOAMR", "#SAVE"} |->
          IF c = "#DOAMR" THEN <<Item("DnAmr", StrV("#SAVE"))>>
                          ELSE <<Item("DnAmr", StrV("F"))>>],
      [c \in {"#NOSUCH"} |-> <<Item("DnAmr", StrV("200"))>>],
      [c \in {"#DOAMR"} |-> <<Item("NoSuch", StrV("1"))>>] }

\* A replacement that loses the echoed parameter name.
NewLineNoParam(value, param) == value \o "\n"

\* newline = value; newline += "\t\t\t" + param; lines[line_num] = newline + '\n'
NewLine(value, param) == value \o "\t\t\t" \o param \o "\n"

\* An index slip: the line before lines[line_num] is overwritten.
SetLineBefore(ls, n, l) == IF n = 0 THEN ls ELSE [ls EXCEPT ![n] = l]

\* lines[line_num] = ...   (line_num is 0-based)
SetLine(ls, n, l) == [ls EXCEPT ![n + 1] = l]

\* words and words[0] in replace.keys()
IsSpecCommand(words, rep) == words # <<>> /\ words[1] \in DOMAIN rep

\* command in replace.keys()
InSpec(cmd, rep) == cmd # <<>> /\ cmd[1] \in DOMAIN rep

RECURSIVE ApplyItems(_, _, _)
\* for param, value in replace[command].items(): ... over the items left;
\* cur is lines[line_num] so far.  words[1] raises IndexError on a line of
\* fewer than two tokens, str + int raises TypeError.
ApplyItems(items, words, cur) ==
    IF items = <<>> THEN [status |-> "ok", line |-> cur]
    ELSE LET it == Head(items) IN
         IF Len(words) < 2 THEN [status |-> "IndexError", line |-> cur]
         ELSE IF it.param = words[2]
              THEN IF it.value.t = "str"
                   THEN ApplyItems(Tail(items), words, NewLine(it.value.v, it.param))
                   ELSE [status |-> "TypeError", line |-> cur]
              ELSE ApplyItems(Tail(items), words, cur)

notparam == <<ovars, csvvars, swvars, cvvars>>

ParamHandles == [h \in {"paramin", "outfile"} |-> "unopened"]

InitParam ==
    /\ pc = "start"
    /\ handles = ParamHandles
    /\ err = "none"
    /\ \E d \in Documents(MaxLines) :
          fs = [p \in {TemplatePath, OutputPath} |->
                   IF p = TemplatePath THEN d ELSE ""]
    /\ param_file = TemplatePath
    /\ replace \in ReplaceSet
    /\ lines = <<>>
    /\ line_num = 0
    /\ command = <<>>
    /\ pass = 1
    /\ out1 = <<>>
    /\ OmniIdle /\ CsvIdle /\ SwIdle /\ ConvertIdle

\* with open(param_file, 'rt') as paramin: command = None; lines = list(paramin)
OpenRead ==
    /\ pc = "start"
    /\ handles' = [handles EXCEPT !["paramin"] = "open"]
    /\ lines' = ReadLines(fs[param_file])
    /\ command' = <<>>
    /\ line_num' = 0
    /\ pc' = "loop"
    /\ UNCHANGED <<err, fs, param_file, replace, pass, out1>>
    /\ UNCHANGED notparam

CurLine == lines[line_num + 1]
CurWords == Split(CurLine)

\* if words and words[0] in replace.keys(): command = words[0]
SetCommand ==
    /\ pc = "loop" /\ line_num < Len(lines)
    /\ IsSpecCommand(CurWords, replace)
    /\ command' = <<CurWords[1]>>
    /\ line_num' = line_num + 1
    /\ UNCHANGED <<shared, fs, param_file, replace, lines, pass, out1>>
    /\ UNCHANGED notparam

\* elif command in replace.keys(): the parameter loop, without an exception
ReplaceParams ==
    /\ pc = "loop" /\ line_num < Len(lines)
    /\ ~IsSpecCommand(CurWords, replace)
    /\ InSpec(command, replace)
    /\ LET r == ApplyItems(replace[command[1]], CurWords, CurLine) IN
          /\ r.status = "ok"
          /\ lines' = SetLine(lines, line_num, r.line)
    /\ line_num' = line_num + 1
    /\ UNCHANGED <<shared, fs, param_file, replace, command, pass, out1>>
    /\ UNCHANGED notparam

\* the parameter loop raises: the with block closes paramin, the exception
\* leaves the function and nothing is written
ReplaceRaises ==
    /\ pc = "loop" /\ line_num < Len(lines)
    /\ ~IsSpecCommand(CurWords, replace)
    /\ InSpec(command, replace)
    /\ LET r == ApplyItems(replace[command[1]], CurWords, CurLine) IN
          /\ r.status # "ok"
          /\ err' = r.status
    /\ handles' = [handles EXCEPT !["paramin"] = "closed"]
    /\ pc' = "error"
    /\ UNCHANGED pvars
    /\ UNCHANGED notparam

\* neither branch: the line is kept
CopyLine ==
    /\ pc = "loop" /\ line_num < Len(lines)
    /\ ~IsSpecCommand(CurWords, replace)
    /\ ~InSpec(command, replace)
    /\ line_num' = line_num + 1
    /\ UNCHANGED <<shared, fs, param_file, replace, lines, command, pass, out1>>
    /\ UNCHANGED notparam

\* the for loop ends and the with block closes paramin
CloseRead ==
    /\ pc = "loop" /\ line_num = Len(lines)
    /\ handles' = [handles EXCEPT !["paramin"] = "closed"]
    /\ pc' = "write"
    /\ UNCHANGED <<err, pvars>>
    /\ UNCHANGED notparam

\* with open(output_file, 'w') as outfile: opening truncates the file
OpenWrite ==
    /\ pc = "write"
    /\ handles' = [handles EXCEPT !["outfile"] = "open"]
    /\ fs' = [fs EXCEPT ![OutputPath] = ""]
    /\ pc' = "writing"
    /\ UNCHANGED <<err, param_file, replace, lines, line_num, command, pass, out1>>
    /\ UNCHANGED notparam

\* for line in lines: outfile.write(line); the with block closes; return lines
WriteReturn ==
    /\ pc = "writing"
    /\ fs' = [fs EXCEPT ![OutputPath] = @ \o WriteLines(lines)]
    /\ handles' = [handles EXCEPT !["outfile"] = "closed"]
    /\ pc' = "done"
    /\ UNCHANGED <<err, param_file, replace, lines, line_num, command, pass, out1>>
    /\ UNCHANGED notparam

\* The caller applies the same spec to the file the first application wrote.
Reapply ==
    /\ pc = "done" /\ pass = 1
    /\ pass' = 2
    /\ out1' = lines
    /\ param_file' = OutputPath
    /\ handles' = ParamHandles
    /\ lines' = <<>>
    /\ line_num' = 0
    /\ command' = <<>>
    /\ pc' = "start"
    /\ UNCHANGED <<err, fs, replace>>
    /\ UNCHANGED notparam

NextParam ==
    \/ OpenRead
    \/ SetCommand
    \/ ReplaceParams
    \/ ReplaceRaises
    \/ CopyLine
    \/ CloseRead
    \/ OpenWrite
    \/ WriteReturn
    \/ Reapply

SpecParam == InitParam /\ [][NextParam]_vars

(***************************************************************************)
(* Properties of replace_paramin_option                                    *)
(***************************************************************************)

\* The lines the running application read.
InputLines == IF pass = 1 THEN ReadLines(fs[TemplatePath])
                          ELSE ReadLines(WriteLines(out1))

Finished == pc \in {"done", "error"}

\* A command-token line: its first token begins with the marker character.
IsCommandLine(l) == Split(l) # <<>> /\ SubSeq(Split(l)[1], 1, 1) = "#"

\* The command of the segment line i lies in (<<>> before the first command):
\* segments run from one command-token line to the next.
SegmentOf(ls, i) ==
    LET before == {j \in 1..(i - 1) : IsCommandLine(ls[j])} IN
    IF before = {} THEN <<>>
    ELSE <<Split(ls[CHOOSE j \in before : \A k \in before : k <= j])[1]>>

\* Line i is a parameter line of a segment of command c naming parameter p.
IsParamLine(ls, i, c, p) ==
    /\ ~IsCommandLine(ls[i])
    /\ SegmentOf(ls, i) = <<c>>
    /\ Len(Split(ls[i])) >= 2
    /\ Split(ls[i])[2] = p

\* The string form of a replacement value.
StrOf(value) == IF value.t = "str" THEN value.v ELSE NatStr(value.v)

\* The replacements the spec can produce for a line.
ReplacementsFor(l) ==
    UNION {{StrOf(replace[c][k].value) \o "\t\t\t" \o replace[c][k].param \o "\n" :
               k \in {j \in DOMAIN replace[c] :
                         /\ Len(Split(l)) >= 2
                         /\ replace[c][j].param = Split(l)[2]}} :
           c \in DOMAIN replace}

\* C1: the returned list has as many lines as the input, line i is the
\* input's line i or the replacement produced for it, and the written file
\* is the returned list.
C1_LinesPreserved ==
    pc = "done" =>
        /\ Len(lines) = Len(InputLines)
        /\ \A i \in 1..Len(lines) :
              lines[i] = InputLines[i] \/ lines[i] \in ReplacementsFor(InputLines[i])
        /\ fs[OutputPath] = WriteLines(lines)

C1_Witness ==
    /\ pc = "done" /\ pass = 1
    /\ Len(lines) >= 3
    /\ \E i \in 1..Len(lines) : lines[i] # InputLines[i]
    /\ \E i \in 1..Len(lines) : lines[i] = InputLines[i]

\* Every replacement value is one whitespace-free, non-empty string that is
\* not a command of the spec.
SingleTokenValues ==
    \A c \in DOMAIN replace : \A k \in DOMAIN replace[c] :
        LET value == replace[c][k].value IN
        /\ value.t = "str"
        /\ Split(value.v) = <<value.v>>
        /\ value.v \notin DOMAIN replace

\* C2 (as amended): when every replacement value is a single whitespace-free
\* token that is not a command of the spec, applying the spec to the output
\* of a first application completes and yields the document the first
\* application produced.
C2_IdempotentSingleToken ==
    (pass = 2 /\ Finished /\ SingleTokenValues) =>
        /\ pc = "done"
        /\ lines = out1
        /\ fs[OutputPath] = WriteLines(out1)

C2_Witness ==
    /\ pass = 2 /\ pc = "done" /\ SingleTokenValues
    /\ out1 # ReadLines(fs[TemplatePath])
    /\ lines = out1

\* C2 (as claimed): with unique parameter names per command, a second
\* application yields the document of the first.
C2_Idempotent ==
    (pass = 2 /\ Finished) => (pc = "done" /\ lines = out1)

\* Every line of the document is a command line of the spec or has at least
\* two tokens.
WellFormedDocument ==
    \A i \in 1..Len(InputLines) :
        \/ IsCommandLine(InputLines[i]) /\ Split(InputLines[i])[1] \in DOMAIN replace
        \/ ~IsCommandLine(InputLines[i]) /\ Len(Split(InputLines[i])) >= 2

\* C3: every occurrence of a command of the spec is patched: each line
\* naming a registered parameter, in each segment of the command, becomes
\* the string form of the value, three tabs and the parameter name (stated
\* for documents of spec commands and parameter lines only).
C3_AllOccurrencesPatched ==
    (pass = 1 /\ Finished /\ WellFormedDocument) =>
        /\ pc = "done"
        /\ \A i \in 1..Len(InputLines) :
              \A c \in DOMAIN replace : \A k \in DOMAIN replace[c] :
                 IsParamLine(InputLines, i, c, replace[c][k].param) =>
                    lines[i] = StrOf(replace[c][k].value) \o "\t\t\t"
                                  \o replace[c][k].param \o "\n"

\* The spec names only commands absent from the document or parameters
\* absent from the segments of their command.
NamesNothingPresent ==
    \A c \in DOMAIN replace : \A k \in DOMAIN replace[c] :
        \A i \in 1..Len(InputLines) :
            ~IsParamLine(InputLines, i, c, replace[c][k].param)

\* C4: a spec naming only absent commands or absent parameters has no effect
\* and is no error: the call completes, returns the input lines and writes
\* them.
C4_AbsentNoEffect ==
    (pass = 1 /\ Finished /\ NamesNothingPresent) =>
        /\ pc = "done"
        /\ lines = InputLines
        /\ fs[OutputPath] = fs[TemplatePath]

\* C10: a line changes only if it lies in a segment of a command of the
\* spec, segments ending at the next command-token line whether or not that
\* command is in the spec.
C10_OnlySpecSegmentsChange ==
    (pass = 1 /\ pc = "done") =>
        \A i \in 1..Len(lines) :
            lines[i] # InputLines[i] =>
                /\ ~IsCommandLine(InputLines[i])
                /\ SegmentOf(InputLines, i) # <<>>
                /\ SegmentOf(InputLines, i)[1] \in DOMAIN replace

(***************************************************************************)
(* Calendar                                                                *)
(***************************************************************************)

IsLeap(y) == (y % 4 = 0 /\ y % 100 # 0) \/ y % 400 = 0

DaysInMonth(y, m) ==
    IF m = 2 THEN (IF IsLeap(y) THEN 29 ELSE 28)
    ELSE IF m \in {4, 6, 9, 11} THEN 30 ELSE 31

\* A datetime.datetime, to the minute.
DateTime(y, m, d, hh, mm) ==
    [year |-> y, month |-> m, day |-> d, hour |-> hh, minute |-> mm]

\* a < b on datetimes
Earlier(a, b) ==
    LET ka == <<a.year, a.month, a.day, a.hour, a.minute>>
        kb == <<b.year, b.month, b.day, b.hour, b.minute>> IN
    \E i \in 1..5 : ka[i] < kb[i] /\ \A j \in 1..(i - 1) : ka[j] = kb[j]

\* a <= b on datetimes
NotLater(a, b) == a = b \/ Earlier(a, b)

RECURSIVE DayOfYear(_, _, _)
\* %j of a date
DayOfYear(y, m, d) ==
    IF m = 1 THEN d ELSE DaysInMonth(y, m - 1) + DayOfYear(y, m - 1, d)

RECURSIVE MonthDayOf(_, _, _)
\* The month and day of day j of year y, searching from month m.
MonthDayOf(y, m, j) ==
    IF j <= DaysInMonth(y, m) THEN <<m, j>>
    ELSE MonthDayOf(y, m + 1, j - DaysInMonth(y, m))

(***************************************************************************)
(* get_omni_data                                                           *)
(***************************************************************************)

MaxSpan == 3

StartYears == {2000}
SampleDays == {1, 15, 29, 31}
SampleHours == {0, 12}

\* A month as a count of months, and back.
MonthIndex(y, m) == y * 12 + (m - 1)
YearOf(k) == k \div 12
MonthOf(k) == (k % 12) + 1

\* The datetimes the arguments and the archive rows are drawn from.
SampleTimes(k) ==
    {DateTime(YearOf(k), MonthOf(k), d, h, 0) :
        d \in {x \in SampleDays : x <= DaysInMonth(YearOf(k), MonthOf(k))},
        h \in SampleHours}

\* The first datetime of month k.
MonthStart(k) == DateTime(YearOf(k), MonthOf(k), 1, 0, 0)

\* rrule.rrule(rrule.MONTHLY, dtstart=time_from, until=time_to): the
\* occurrence in month k is dtstart moved to that month; a month that has
\* no such day has no occurrence.
HasOccurrence(k, dtstart) == dtstart.day <= DaysInMonth(YearOf(k), MonthOf(k))
Occurrence(k, dtstart) ==
    DateTime(YearOf(k), MonthOf(k), dtstart.day, dtstart.hour, dtstart.minute)

RECURSIVE NextOccurrence(_, _, _)
\* The month of the iterator's next occurrence from month k on, or -1 when
\* the iteration is over (the next occurrence is later than until).
NextOccurrence(k, dtstart, until) ==
    IF Earlier(until, MonthStart(k)) THEN -1
    ELSE IF HasOccurrence(k, dtstart)
         THEN IF NotLater(Occurrence(k, dtstart), until) THEN k ELSE -1
         ELSE NextOccurrence(k + 1, dtstart, until)

\* suffix = 'omni_min' + str(date.year) + str(date.month).zfill(2) + '.asc'
Suffix(y, m) == "omni_min" \o NatStr(y) \o ZFill2(m) \o ".asc"

\* The rows of the archive's file for month k, as the columns year,
\* day of year, hour, minute.
ArchiveRows(k) ==
    LET ts == SampleTimes(k)
        Rank(t) == Cardinality({u \in ts : Earlier(u, t)}) + 1 IN
    [i \in 1..Cardinality(ts) |->
        LET t == CHOOSE u \in ts : Rank(u) = i IN
        <<t.year, DayOfYear(t.year, t.month, t.day), t.hour, t.minute>>]

\* dt.datetime.strptime(cols[0..3], '%Y %j %H %M')
ParseRow(cols) ==
    LET md == MonthDayOf(cols[1], 1, cols[2]) IN
    DateTime(cols[1], md[1], md[2], cols[3], cols[4])

RECURSIVE KeepRows(_, _, _)
\* for line in data: if time >= time_from and time <= time_to: append(time)
KeepRows(rows, from, to) ==
    IF rows = <<>> THEN <<>>
    ELSE LET time == ParseRow(Head(rows)) IN
         (IF NotLater(from, time) /\ NotLater(time, to) THEN <<time>> ELSE <<>>)
            \o KeepRows(Tail(rows), from, to)

notomni == <<pvars, csvvars, swvars, cvvars>>

InitOmni ==
    /\ pc = "next"
    /\ handles = [h \in {"response"} |-> "unopened"]
    /\ err = "none"
    /\ \E y \in StartYears, m \in 1..12, span \in 0..MaxSpan :
          /\ time_from \in SampleTimes(MonthIndex(y, m))
          /\ time_to \in SampleTimes(MonthIndex(y, m) + span)
          /\ NotLater(time_from, time_to)
          /\ cursor = MonthIndex(y, m)
    /\ requests = <<>>
    /\ omni_data = <<>>
    /\ ParamIdle /\ CsvIdle /\ SwIdle /\ ConvertIdle

\* The iterator yields a date; urllib.request.urlopen(omni_url+suffix) answers.
OmniRequest ==
    /\ pc = "next"
    /\ LET k == NextOccurrence(cursor, time_from, time_to) IN
          /\ k # -1
          /\ requests' = Append(requests, Suffix(YearOf(k), MonthOf(k)))
          /\ cursor' = k
    /\ handles' = [handles EXCEPT !["response"] = "open"]
    /\ pc' = "parse"
    /\ UNCHANGED <<err, time_from, time_to, omni_data>>
    /\ UNCHANGED notomni

\* urlopen raises (the network or the server fails): the exception leaves
\* the function.
OmniRequestFails ==
    /\ pc = "next"
    /\ LET k == NextOccurrence(cursor, time_from, time_to) IN
          /\ k # -1
          /\ requests' = Append(requests, Suffix(YearOf(k), MonthOf(k)))
          /\ cursor' = k
    /\ err' = "URLError"
    /\ pc' = "error"
    /\ UNCHANGED <<handles, time_from, time_to, omni_data>>
    /\ UNCHANGED notomni

\* data = list(response) and the parse loop.  The response is never closed
\* by the code: when the object is reclaimed is up to the interpreter.
OmniParse ==
    /\ pc = "parse"
    /\ omni_data' = omni_data \o KeepRows(ArchiveRows(cursor), time_from, time_to)
    /\ \E h \in {"open", "closed"} :
          handles' = [handles EXCEPT !["response"] = h]
    /\ cursor' = cursor + 1
    /\ pc' = "next"
    /\ UNCHANGED <<err, time_from, time_to, requests>>
    /\ UNCHANGED notomni

\* The iterator is exhausted: return omni_data
OmniReturn ==
    /\ pc = "next"
    /\ NextOccurrence(cursor, time_from, time_to) = -1
    /\ pc' = "done"
    /\ UNCHANGED <<handles, err, ovars>>
    /\ UNCHANGED notomni

NextOmni ==
    \/ OmniRequest
    \/ OmniRequestFails
    \/ OmniParse
    \/ OmniReturn

SpecOmni == InitOmni /\ [][NextOmni]_vars

RECURSIVE SuffixesFrom(_, _)
\* The resource names of the months k..last, in order.
SuffixesFrom(k, last) ==
    IF k > last THEN <<>>
    ELSE <<Suffix(YearOf(k), MonthOf(k))>> \o SuffixesFrom(k + 1, last)

\* The months the interval [time_from, time_to] touches.
TouchedFirst == MonthIndex(time_from.year, time_from.month)
TouchedLast == MonthIndex(time_to.year, time_to.month)

\* C5: one request per calendar month the interval touches, in order, no
\* other; and every archive row inside the interval is in the result.
C5_OneRequestPerMonth ==
    (pc = "done" /\ time_from # <<>>) =>
        /\ requests = SuffixesFrom(TouchedFirst, TouchedLast)
        /\ \A k \in TouchedFirst..TouchedLast : \A t \in SampleTimes(k) :
              (NotLater(time_from, t) /\ NotLater(t, time_to)) =>
                 \E i \in 1..Len(omni_data) : omni_data[i] = t

(***************************************************************************)
(* read_omni_csv and coarse_filtering                                      *)
(*                                                                         *)
(* A cell is a rational [n, d] (d > 0), or NaN (d = 0).  The cells of the  *)
(* file are whole numbers; interpolation produces fractions.  Comparisons  *)
(* with NaN are false, as in the code.  The cells of "T [K]" count units   *)
(* of 100000 K, which keeps the outlier filter's sums of squares small;    *)
(* the filter's inequality does not depend on the unit.                    *)
(***************************************************************************)

NaN == [n |-> 0, d |-> 0]
Num(x) == [n |-> x, d |-> 1]
IsNaN(c) == c.d = 0

Abs(x) == IF x < 0 THEN -x ELSE x

\* cell < limit
CellLess(c, limit) == ~IsNaN(c) /\ c.n < limit * c.d

\* abs(cell) < limit
CellAbsLess(c, limit) == ~IsNaN(c) /\ Abs(c.n) < limit * c.d

Columns == <<"Bx [nT]", "By [nT]", "Bz [nT]", "Vx [km/s]", "Vy [km/s]",
             "Vz [km/s]", "Rho [n/cc]", "T [K]">>
ColumnNames == {Columns[i] : i \in DOMAIN Columns}

\* The clean pass keeps a cell when this holds (one line of the code per column).
CleanKeeps(col, c) ==
    CASE col = "By [nT]"    -> CellAbsLess(c, 80)
      [] col = "Bx [nT]"    -> CellAbsLess(c, 80)
      [] col = "Bz [nT]"    -> CellAbsLess(c, 80)
      [] col = "Rho [n/cc]" -> CellLess(c, 500)
      [] col = "Vx [km/s]"  -> CellAbsLess(c, 2000)
      [] col = "Vz [km/s]"  -> CellAbsLess(c, 1000)
      [] col = "Vy [km/s]"  -> CellAbsLess(c, 1000)
      [] col = "T [K]"      -> CellLess(c, 10000000 \div 100000)

\* data[col] = data[col][keep]: a cell that is not kept becomes NaN
Mask(xs, Keep(_)) == [i \in DOMAIN xs |-> IF Keep(xs[i]) THEN xs[i] ELSE NaN]

CleanColumn(col, xs) == LET Keep(c) == CleanKeeps(col, c) IN Mask(xs, Keep)

RECURSIVE SumOver(_, _)
\* The sum of f over a finite set of indices.
SumOver(f, S) ==
    IF S = {} THEN 0
    ELSE LET i == CHOOSE j \in S : TRUE IN f[i] + SumOver(f, S \ {i})

\* abs(x) < mean + coarseness*sigma for a whole-number column, where mean is
\* the mean of the absolute values and sigma the sample standard deviation
\* (ddof = 1) of the cells present.  With n cells present, S their sum, A
\* the sum of their absolute values and Q the sum of their squares:
\*   mean = A/n, sigma^2 = (n*Q - S^2) / (n*(n-1)),
\* mean is NaN when n = 0 and sigma is NaN when n <= 1, and a comparison
\* with NaN is false.  The inequality is decided in exact arithmetic
\* (coarse >= 0).
FilterKeeps(xs, coarse, c) ==
    LET P == {i \in DOMAIN xs : ~IsNaN(xs[i])}
        n == Cardinality(P)
        S == SumOver([i \in DOMAIN xs |-> xs[i].n], P)
        A == SumOver([i \in DOMAIN xs |-> Abs(xs[i].n)], P)
        Q == SumOver([i \in DOMAIN xs |-> xs[i].n * xs[i].n], P)
        lhs == n * Abs(c.n) - A
    IN  /\ ~IsNaN(c)
        /\ n >= 2
        /\ \/ lhs < 0
           \/ lhs * lhs * (n - 1) < coarse * coarse * n * (n * Q - S * S)

\* data[column] = data[data[column].abs() < mean+coarseness*sigma][column]
FilterColumn(xs, coarse) ==
    LET Keep(c) == FilterKeeps(xs, coarse, c) IN Mask(xs, Keep)

\* Series.interpolate(): linear between the nearest cells present; after
\* the last cell present its value is repeated; before the first the cells
\* stay NaN.
Interpolate(xs) ==
    [i \in DOMAIN xs |->
        IF ~IsNaN(xs[i]) THEN xs[i]
        ELSE LET before == {j \in DOMAIN xs : j < i /\ ~IsNaN(xs[j])}
                 after == {j \in DOMAIN xs : j > i /\ ~IsNaN(xs[j])} IN
             IF before = {} THEN NaN
             ELSE LET l == CHOOSE j \in before : \A k \in before : k <= j IN
                  IF after = {} THEN xs[l]
                  ELSE LET r == CHOOSE j \in after : \A k \in after : j <= k IN
                       [n |-> (xs[l].n * xs[r].d * (r - i)) + (xs[r].n * xs[l].d * (i - l)),
                        d |-> xs[l].d * xs[r].d * (r - l)]]

\* Series.bfill(): a NaN takes the next cell present
BFill(xs) ==
    [i \in DOMAIN xs |->
        IF ~IsNaN(xs[i]) THEN xs[i]
        ELSE LET after == {j \in DOMAIN xs : j > i /\ ~IsNaN(xs[j])} IN
             IF after = {} THEN NaN
             ELSE xs[CHOOSE j \in after : \A k \in after : j <= k]]

\* Series.ffill(): a NaN takes the last cell present
FFill(xs) ==
    [i \in DOMAIN xs |->
        IF ~IsNaN(xs[i]) THEN xs[i]
        ELSE LET before == {j \in DOMAIN xs : j < i /\ ~IsNaN(xs[j])} IN
             IF before = {} THEN NaN
             ELSE xs[CHOOSE j \in before : \A k \in before : k <= j]]

\* Whole-number columns of three rows, -1 standing for an empty field of the
\* file in "Bz [nT]" and 999 for the archive's fill value.
RawColumns(col) ==
    CASE col = "Bx [nT]"    -> {<<-3, 4, 79>>, <<80, -80, 999>>, <<10, 999, 20>>}
      [] col = "By [nT]"    -> {<<5, 5, 5>>, <<-79, 0, 79>>}
      [] col = "Bz [nT]"    -> {<<1, -1, 4>>, <<-1, 2, 3>>}
      [] col = "Vx [km/s]"  -> {<<-400, -450, -1900>>, <<-400, -2000, -600>>}
      [] col = "Vy [km/s]"  -> {<<10, -20, 30>>, <<1000, 5, 6>>}
      [] col = "Vz [km/s]"  -> {<<0, 0, 1>>, <<7, 8, -1000>>}
      [] col = "Rho [n/cc]" -> {<<5, 6, 7>>, <<500, 999, 500>>, <<5, 999, 8>>}
      [] col = "T [K]"      -> {<<1, 3, 2>>, <<100, 1, 99>>}

RowCounts == {1, 2, 3}
Coarsenesses == {1, 3}

\* pd.read_csv of the column: its first rows cells, an empty field as NaN
ReadColumn(col, raw, rows) ==
    [i \in 1..rows |->
        IF col = "Bz [nT]" /\ raw[i] = -1 THEN NaN ELSE Num(raw[i])]

notcsv == <<pvars, ovars, swvars, cvvars>>

InitCsv ==
    /\ pc = "read"
    /\ handles = [h \in {"datafile"} |-> "unopened"]
    /\ err = "none"
    /\ \E rows \in RowCounts :
       \E r1 \in RawColumns(Columns[1]), r2 \in RawColumns(Columns[2]),
          r3 \in RawColumns(Columns[3]), r4 \in RawColumns(Columns[4]),
          r5 \in RawColumns(Columns[5]), r6 \in RawColumns(Columns[6]),
          r7 \in RawColumns(Columns[7]), r8 \in RawColumns(Columns[8]) :
          LET raw == <<r1, r2, r3, r4, r5, r6, r7, r8>> IN
          csv_file = [c \in ColumnNames |->
                        LET k == CHOOSE i \in DOMAIN Columns : Columns[i] = c IN
                        ReadColumn(c, raw[k], rows)]
    /\ data = <<>>
    /\ clean \in BOOLEAN
    /\ filtering \in BOOLEAN
    /\ coarseness \in (IF filtering THEN Coarsenesses ELSE {3})
    /\ ParamIdle /\ OmniIdle /\ SwIdle /\ ConvertIdle

\* with open(filename, 'r') as datafile: data = pd.read_csv(...); the index
\* is set to the time column
CsvRead ==
    /\ pc = "read"
    /\ data' = csv_file
    /\ handles' = [handles EXCEPT !["datafile"] = "closed"]
    /\ pc' = "clean"
    /\ UNCHANGED <<err, csv_file, clean, filtering, coarseness>>
    /\ UNCHANGED notcsv

\* if kwargs.get('clean', True): the eight assignments
CsvClean ==
    /\ pc = "clean" /\ clean
    /\ data' = [c \in ColumnNames |-> CleanColumn(c, data[c])]
    /\ pc' = "filter"
    /\ UNCHANGED <<handles, err, csv_file, clean, filtering, coarseness>>
    /\ UNCHANGED notcsv

CsvNoClean ==
    /\ pc = "clean" /\ ~clean
    /\ pc' = "filter"
    /\ UNCHANGED <<handles, err, csvvars>>
    /\ UNCHANGED notcsv

\* if filtering: coarse_filtering(data, kwargs.get('coarseness', 3))
CsvFilter ==
    /\ pc = "filter" /\ filtering
    /\ data' = [c \in ColumnNames |-> FilterColumn(data[c], coarseness)]
    /\ pc' = "fill"
    /\ UNCHANGED <<handles, err, csv_file, clean, filtering, coarseness>>
    /\ UNCHANGED notcsv

CsvNoFilter ==
    /\ pc = "filter" /\ ~filtering
    /\ pc' = "fill"
    /\ UNCHANGED <<handles, err, csvvars>>
    /\ UNCHANGED notcsv

\* return data.interpolate().bfill().ffill()
CsvFill ==
    /\ pc = "fill"
    /\ data' = [c \in ColumnNames |-> FFill(BFill(Interpolate(data[c])))]
    /\ pc' = "done"
    /\ UNCHANGED <<handles, err, csv_file, clean, filtering, coarseness>>
    /\ UNCHANGED notcsv

NextCsv ==
    \/ CsvRead
    \/ CsvClean
    \/ CsvNoClean
    \/ CsvFilter
    \/ CsvNoFilter
    \/ CsvFill

SpecCsv == InitCsv /\ [][NextCsv]_vars

IsTable == DOMAIN data = ColumnNames

\* Every column of the file holds at least one number.
FileHasNumbers ==
    \A c \in ColumnNames : \E i \in DOMAIN csv_file[c] : ~IsNaN(csv_file[c][i])

\* Every cell of the file is a number inside the cleaning bound of its column.
FileIsClean ==
    \A c \in ColumnNames : \A i \in DOMAIN csv_file[c] : CleanKeeps(c, csv_file[c][i])

\* C6: the returned table has no missing cell (stated for files in which
\* every column holds a number).
C6_NoMissingCell ==
    (pc = "done" /\ IsTable /\ FileHasNumbers) =>
        \A c \in ColumnNames : \A i \in DOMAIN data[c] : ~IsNaN(data[c][i])

\* C7: with clean=true every cell of the returned table satisfies the
\* cleaning bound of its column (stated for files whose cells all satisfy
\* the bounds already).
C7_CleanBounds ==
    (pc = "done" /\ IsTable /\ clean /\ FileIsClean) =>
        \A c \in ColumnNames : \A i \in DOMAIN data[c] : CleanKeeps(c, data[c][i])

\* With clean=true every cell of the returned table that holds a number
\* satisfies the cleaning bound of its column.
CleanBoundsOfNumbers ==
    (pc = "done" /\ IsTable /\ clean) =>
        \A c \in ColumnNames : \A i \in DOMAIN data[c] :
            IsNaN(data[c][i]) \/ CleanKeeps(c, data[c][i])

(***************************************************************************)
(* write_sw_input                                                          *)
(*                                                                         *)
(* A record of data is modelled by its index (a datetime); the numeric     *)
(* fields of a record line are left out of the lines written.              *)
(***************************************************************************)

MaxRecords == 3

PyNone == [t |-> "NoneType", v |-> ""]
BoolV(b) == [t |-> "bool", v |-> b]

\* index.strftime("%Y %m %d %H %M %S") + ' ' + index.strftime("%f")[:3] + ' '
PrimaryStamp(t) ==
    NatStr(t.year) \o " " \o ZFill2(t.month) \o " " \o ZFill2(t.day) \o " "
        \o ZFill2(t.hour) \o " " \o ZFill2(t.minute) \o " 00 000 "

\* index.strftime("%d %m %Y %H %M %S.%f") + "     "
RbStamp(t) ==
    ZFill2(t.day) \o " " \o ZFill2(t.month) \o " " \o NatStr(t.year) \o " "
        \o ZFill2(t.hour) \o " " \o ZFill2(t.minute) \o " 00.000000     "

\* data.index[0].strftime("%Y, %j, %H ") + "! iyear, ..."
T0Line(t) ==
    NatStr(t.year) \o ", " \o ZFill3(DayOfYear(t.year, t.month, t.day)) \o ", "
        \o ZFill2(t.hour) \o " ! iyear, iday, ihour corresponding to t=0\n"

\* str(kwargs["swlag_time"]) + "  " + "! swlag time in seconds for sw ..."
SwlagLine(value) ==
    StrOf(value) \o "  ! swlag time in seconds for sw travel to subsolar\n"

RbHeader1 == "11902 data                   P+ NP NONLIN    P+ V (MOM)\n"
RbHeader2 == "dd mm yyyy hh mm ss.ms           #/cc          km/s\n"

\* swlag_time = None; if swlag_time in kwargs: the travel-time line
SwlagLines(kw) ==
    LET swlag_time == PyNone IN
    IF swlag_time \in DOMAIN kw THEN <<SwlagLine(kw[StrV("swlag_time")])>> ELSE <<>>

\* kwargs.get('gse', False)
UseGse(kw) == StrV("gse") \in DOMAIN kw /\ kw[StrV("gse")].v

RecordTimes == <<DateTime(2000, 1, 1, 0, 0), DateTime(2000, 1, 1, 0, 1),
                 DateTime(2000, 3, 1, 12, 30), DateTime(2000, 12, 31, 23, 59)>>

notsw == <<pvars, ovars, csvvars, cvvars>>

InitSw ==
    /\ pc = "primary"
    /\ handles = [h \in {"outfile", "rbfile"} |-> "unopened"]
    /\ err = "none"
    /\ \E n \in 0..MaxRecords : sw_data = SubSeq(RecordTimes, 1, n)
    /\ \E keys \in SUBSET {StrV("gse"), StrV("swlag_time")} :
       \E g \in BOOLEAN, lag \in {0, 3600} :
          kwargs = [k \in keys |-> IF k = StrV("gse") THEN BoolV(g) ELSE IntV(lag)]
    /\ enable_rb \in BOOLEAN
    /\ imf_file = <<>>
    /\ rb_file = <<>>
    /\ ParamIdle /\ OmniIdle /\ CsvIdle /\ ConvertIdle

\* with open(outfilename, 'w') as outfile: the header lines
SwOpenPrimary ==
    /\ pc = "primary"
    /\ handles' = [handles EXCEPT !["outfile"] = "open"]
    /\ imf_file' = <<"CSV files downloaded from https://cdaweb.gsfc.nasa.gov/\n">>
                   \o (IF UseGse(kwargs) THEN <<"#COOR\n", "GSE\n">> ELSE <<>>)
                   \o <<"yr mn dy hr min sec msec bx by bz vx vy vz dens temp\n",
                        "#START\n">>
    /\ pc' = "rows"
    /\ UNCHANGED <<err, sw_data, kwargs, enable_rb, rb_file>>
    /\ UNCHANGED notsw

\* The number of record lines in a file with its header lines.
PrimaryRows == Len(imf_file) - (IF UseGse(kwargs) THEN 5 ELSE 3)

\* for index, rows in data.iterrows(): one line
SwWriteRow ==
    /\ pc = "rows" /\ PrimaryRows < Len(sw_data)
    /\ imf_file' = Append(imf_file, PrimaryStamp(sw_data[PrimaryRows + 1]) \o "\n")
    /\ UNCHANGED <<shared, sw_data, kwargs, enable_rb, rb_file>>
    /\ UNCHANGED notsw

\* the with block ends
SwClosePrimary ==
    /\ pc = "rows" /\ PrimaryRows = Len(sw_data)
    /\ handles' = [handles EXCEPT !["outfile"] = "closed"]
    /\ pc' = "rb"
    /\ UNCHANGED <<err, swvars>>
    /\ UNCHANGED notsw

\* if enable_rb: (not taken)
SwNoRb ==
    /\ pc = "rb" /\ ~enable_rb
    /\ pc' = "done"
    /\ UNCHANGED <<handles, err, swvars>>
    /\ UNCHANGED notsw

\* with open("RB.SWIMF", 'w') as rbfile: the t=0 line, the travel-time line
\* and the two fixed header lines
SwOpenRb ==
    /\ pc = "rb" /\ enable_rb /\ sw_data # <<>>
    /\ handles' = [handles EXCEPT !["rbfile"] = "open"]
    /\ rb_file' = <<T0Line(sw_data[1])>> \o SwlagLines(kwargs)
                  \o <<RbHeader1, RbHeader2>>
    /\ pc' = "rbrows"
    /\ UNCHANGED <<err, sw_data, kwargs, enable_rb, imf_file>>
    /\ UNCHANGED notsw

\* data.index[0] of an empty table raises IndexError; the with block closes
\* the file it opened
SwOpenRbFails ==
    /\ pc = "rb" /\ enable_rb /\ sw_data = <<>>
    /\ handles' = [handles EXCEPT !["rbfile"] = "closed"]
    /\ err' = "IndexError"
    /\ pc' = "error"
    /\ UNCHANGED swvars
    /\ UNCHANGED notsw

RbRows == Len(rb_file) - 3 - Len(SwlagLines(kwargs))

\* for index, rows in data.iterrows(): one line
SwWriteRbRow ==
    /\ pc = "rbrows" /\ RbRows < Len(sw_data)
    /\ rb_file' = Append(rb_file, RbStamp(sw_data[RbRows + 1]) \o "\n")
    /\ UNCHANGED <<shared, sw_data, kwargs, enable_rb, imf_file>>
    /\ UNCHANGED notsw

\* the with block ends and the function returns
SwCloseRb ==
    /\ pc = "rbrows" /\ RbRows = Len(sw_data)
    /\ handles' = [handles EXCEPT !["rbfile"] = "closed"]
    /\ pc' = "done"
    /\ UNCHANGED <<err, swvars>>
    /\ UNCHANGED notsw

NextSw ==
    \/ SwOpenPrimary
    \/ SwWriteRow
    \/ SwClosePrimary
    \/ SwNoRb
    \/ SwOpenRb
    \/ SwOpenRbFails
    \/ SwWriteRbRow
    \/ SwCloseRb

SpecSw == InitSw /\ [][NextSw]_vars

\* C8: the auxiliary file holds the travel-time line, directly after the
\* t=0 line and before the two fixed header lines, exactly when the caller
\* supplies swlag_time.
C8_TravelTimeHeader ==
    (pc = "done" /\ enable_rb) =>
        IF StrV("swlag_time") \in DOMAIN kwargs
        THEN /\ Len(rb_file) >= 4
             /\ rb_file[2] = SwlagLine(kwargs[StrV("swlag_time")])
             /\ rb_file[3] = RbHeader1 /\ rb_file[4] = RbHeader2
        ELSE /\ Len(rb_file) >= 3
             /\ rb_file[2] = RbHeader1 /\ rb_file[3] = RbHeader2

(***************************************************************************)
(* convert                                                                 *)
(***************************************************************************)

MaxConvertLines == 3

\* The value of a decimal digit, -1 for any other character.
DigitValue(c) ==
    LET S == {i \in 1..10 : SubSeq(DigitChars, i, i) = c} IN
    IF S = {} THEN -1 ELSE (CHOOSE i \in S : TRUE) - 1

RECURSIVE ParseNat(_)
\* int(s) of a string of digits, -1 when s is empty or has another character
ParseNat(s) ==
    IF s = "" THEN -1
    ELSE LET last == DigitValue(SubSeq(s, Len(s), Len(s))) IN
         IF last = -1 THEN -1
         ELSE IF Len(s) = 1 THEN last
              ELSE LET rest == ParseNat(SubSeq(s, 1, Len(s) - 1)) IN
                   IF rest = -1 THEN -1 ELSE rest * 10 + last

\* dt.datetime.strptime(line[:14], "%Y %j %H %M") on the fixed layout
\* "YYYY DDD HH MM"; <<>> stands for ValueError.  Day 366 of a year of 365
\* days is the first day of the next year.
ParseStamp(line) ==
    LET s == SubSeq(line, 1, IF Len(line) < 14 THEN Len(line) ELSE 14)
        y == ParseNat(SubSeq(s, 1, 4))
        j == ParseNat(SubSeq(s, 6, 8))
        hh == ParseNat(SubSeq(s, 10, 11))
        mm == ParseNat(SubSeq(s, 13, 14)) IN
    IF /\ Len(s) = 14
       /\ SubSeq(s, 5, 5) = " " /\ SubSeq(s, 9, 9) = " " /\ SubSeq(s, 12, 12) = " "
       /\ y # -1 /\ j >= 1 /\ j <= 366
       /\ hh # -1 /\ hh <= 23 /\ mm # -1 /\ mm <= 59
    THEN IF j = 366 /\ ~IsLeap(y)
         THEN <<DateTime(y + 1, 1, 1, hh, mm)>>
         ELSE LET md == MonthDayOf(y, 1, j) IN <<DateTime(y, md[1], md[2], hh, mm)>>
    ELSE <<>>

\* date.strftime("%Y %m %d %H %M %S") + ' 000' + line[14:]
CorrectLine(date, line) ==
    NatStr(date.year) \o " " \o ZFill2(date.month) \o " " \o ZFill2(date.day)
        \o " " \o ZFill2(date.hour) \o " " \o ZFill2(date.minute) \o " 00"
        \o " 000" \o SubSeq(line, 15, Len(line))

ConvertHeader ==
    "OMNI file downloaded from                    https://omniweb.gsfc.nasa.gov/\n"
        \o "yr mn dy hr min sec msec bx by bz vx vy vz dens temp\n"
        \o "#START\n"

\* Lines of an OMNI file: three data lines, a day of year out of range, the
\* column header left in the file, and an empty last line.
ConvertLineSet ==
    {"2000 001 00 00  1.5 -2.0\n", "2000 060 23 59  0.1  0.2\n",
     "2001 366 00 00  3.0  4.0\n", "2000 400 00 00  9.9  9.9\n",
     "YYYY DOY HR MN  Bx   By\n", "\n"}

RECURSIVE LineSeqs(_, _)
\* The sequences of at most n lines of S.
LineSeqs(S, n) ==
    IF n = 0 THEN {<<>>}
    ELSE LET shorter == LineSeqs(S, n - 1) IN
         shorter \cup {Append(q, l) : q \in {x \in shorter : Len(x) = n - 1}, l \in S}

notconvert == <<pvars, ovars, csvvars, swvars>>

InitConvert ==
    /\ pc = "start"
    /\ err = "none"
    /\ infile \in LineSeqs(ConvertLineSet, MaxConvertLines)
    /\ outfile \in {"file", "str"}
    /\ handles = [h \in {"infile", "outfile"} |->
                     IF h = "outfile" /\ outfile = "str" THEN "unopened" ELSE "open"]
    /\ out_text = ""
    /\ ParamIdle /\ OmniIdle /\ CsvIdle /\ SwIdle

\* the three outfile.write calls of the header
ConvertWriteHeader ==
    /\ pc = "start" /\ outfile = "file"
    /\ out_text' = ConvertHeader
    /\ pc' = "loop"
    /\ UNCHANGED <<handles, err, infile, outfile>>
    /\ UNCHANGED notconvert

\* outfile is the default "IMF.dat", a str: it has no write
ConvertHeaderFails ==
    /\ pc = "start" /\ outfile = "str"
    /\ err' = "AttributeError"
    /\ pc' = "error"
    /\ UNCHANGED <<handles, cvvars>>
    /\ UNCHANGED notconvert

\* for line in infile: one line converted and written
ConvertLine ==
    /\ pc = "loop" /\ infile # <<>>
    /\ LET date == ParseStamp(Head(infile)) IN
          /\ date # <<>>
          /\ out_text' = out_text \o CorrectLine(date[1], Head(infile))
    /\ infile' = Tail(infile)
    /\ UNCHANGED <<shared, outfile>>
    /\ UNCHANGED notconvert

\* strptime raises ValueError: the exception leaves the function before the
\* close calls
ConvertLineFails ==
    /\ pc = "loop" /\ infile # <<>>
    /\ ParseStamp(Head(infile)) = <<>>
    /\ infile' = Tail(infile)
    /\ err' = "ValueError"
    /\ pc' = "error"
    /\ UNCHANGED <<handles, outfile, out_text>>
    /\ UNCHANGED notconvert

\* outfile.close(); infile.close()
ConvertClose ==
    /\ pc = "loop" /\ infile = <<>>
    /\ handles' = [h \in DOMAIN handles |-> "closed"]
    /\ pc' = "done"
    /\ UNCHANGED <<err, cvvars>>
    /\ UNCHANGED notconvert

NextConvert ==
    \/ ConvertWriteHeader
    \/ ConvertHeaderFails
    \/ ConvertLine
    \/ ConvertLineFails
    \/ ConvertClose

SpecConvert == InitConvert /\ [][NextConvert]_vars

\* C9: when an operation ends, normally or with an exception, none of its
\* file or network handles is open; and replace_paramin_option has closed
\* its input file when it opens its output file.
C9_HandlesReleased ==
    /\ Finished => \A h \in DOMAIN handles : handles[h] # "open"
    /\ ({"paramin", "outfile"} \subseteq DOMAIN handles /\ handles["outfile"] = "open")
          => handles["paramin"] = "closed"

====
